---- MODULE Spec2Model ----
(***************************************************************************)
(* The durable workflow engine of kit (framework/src/workflow): the        *)
(* workflows and workflow_steps tables, the store operations on them, the  *)
(* claim statement, the execution context's run_step protocol and the      *)
(* worker loop.  Several worker processes share one database and one       *)
(* clock.  Every store operation is one action (a single-row statement);   *)
(* the claim statement is two actions, the locking sub-select and the      *)
(* UPDATE that commits, so that concurrent claims interleave.              *)
(***************************************************************************)
EXTENDS Integers, Sequences, FiniteSets, TLC

\* ---------------------------------------------------------------- bounds
MaxWorkflows == 1      \* rows inserted into workflows
MaxSteps == 2          \* step calls one execution attempt makes
MaxTime == 3           \* the clock runs 0 .. MaxTime
MaxAttemptsArg == 2    \* largest max_attempts given to insert_workflow
MaxStarts == 2         \* start_named calls
MaxPoolWorkflows == 2  \* rows beside a single worker process (SpecPool)
MaxPoolTime == 2       \* the clock of SpecPool runs 0 .. MaxPoolTime
MaxPoolAttempts == 3   \* largest max_attempts of a row of SpecPool
MaxPathLen == 2        \* segments of a module path
MaxNameStarts == 2     \* start_workflow! calls (SpecName)
MaxNestedSteps == 3    \* step calls one attempt of the nested program makes (SpecNested)
MaxMarks == 2          \* store::mark_running calls (SpecMark)

\* ---------------------------------------------------------------- configuration (WorkflowConfig)
\* The configuration is read from the environment; the values below are
\* the ones the model runs under (seconds are clock ticks).
Concurrency == 1
LockTimeoutSecs == 1
ConfigMaxAttempts == 2
RetryBackoffSecs == 1

Workers == {"w1", "w2"}
Registered == {"flow"}             \* names the registry holds
Names == Registered \cup {"ghost"} \* "ghost" is in no registry
StepNames == {"a", "b"}
Values == {1, 2}                   \* values step bodies and workflows return
WorkflowInput == "[]"
StepInput == "[]"

VARIABLES
    workflows,   \* the workflows table: row id = index
    steps,       \* the workflow_steps table: row id = index
    now,         \* the clock (NOW(), Utc::now())
    loop,        \* per worker: where WorkflowWorker::run stands
    permits,     \* per worker: free permits of the semaphore
    txn,         \* per worker: the claim statement in flight, or NoTxn
    tasks,       \* the spawned executions of process_claimed_workflow
    bodyCalls,   \* history: per (workflow, step index), the invocations of a step body
    claims,      \* history: per workflow, the claims that returned it
    requeues,    \* history: per workflow, the requeue calls
    starts,      \* history: the start_named calls and what they returned
    waiter,      \* a caller of WorkflowHandle::wait: where it stands and what it got
    decl,        \* the #[workflow] function the program declares: module path and name
    marks        \* history: the number of store::mark_running calls, and the last one with what it returned

vars == <<workflows, steps, now, loop, permits, txn, tasks, bodyCalls, claims, requeues, starts, waiter, decl, marks>>

\* ---------------------------------------------------------------- Option<T>
None == <<>>
Some(x) == <<x>>
IsSome(o) == o /= None
Get(o) == o[1]

\* ---------------------------------------------------------------- JSON codec
\* serde_json::to_string of an integer is its decimal text; from_str parses
\* the text back and fails on text that is no integer of the type.
ToJson(v) == ToString(v)
JsonTexts == {ToJson(v) : v \in Values}
FromJsonOk(s) == s \in JsonTexts
FromJson(s) == CHOOSE v \in Values : ToJson(v) = s

\* ---------------------------------------------------------------- WorkflowStatus
\* WorkflowStatus::from_str: the text of the status column to the enum.
StatusFromStr(text) ==
    CASE text = "pending" -> Some("Pending")
      [] text = "running" -> Some("Running")
      [] text = "succeeded" -> Some("Succeeded")
      [] text = "failed" -> Some("Failed")
      [] OTHER -> None

\* ---------------------------------------------------------------- registry
RegistryFind(name) == name \in Registered

\* ---------------------------------------------------------------- store: workflows
NewWorkflow(name, input, max_attempts, t) ==
    [name |-> name, status |-> "pending", input |-> input,
     output |-> None, error |-> None, attempts |-> 0,
     max_attempts |-> max_attempts, next_run_at |-> None,
     locked_until |-> None, worker_id |-> None,
     updated_at |-> t, started_at |-> None, completed_at |-> None]

insert_workflow(wfs, name, input, max_attempts, t) ==
    Append(wfs, NewWorkflow(name, input, max_attempts, t))

\* ClaimPredicate without the test of the status.
ClaimPredicate_AnyStatus(r, t) ==
    /\ (r.next_run_at = None \/ Get(r.next_run_at) <= t)
    /\ (r.locked_until = None \/ Get(r.locked_until) <= t)

\* ClaimPredicate without the test of next_run_at.
ClaimPredicate_NoSchedule(r, t) ==
    /\ r.status = "pending"
    /\ (r.locked_until = None \/ Get(r.locked_until) <= t)

\* WHERE status = 'pending' AND (next_run_at IS NULL OR next_run_at <= NOW())
\*   AND (locked_until IS NULL OR locked_until <= NOW())
ClaimPredicate(r, t) ==
    /\ r.status = "pending"
    /\ (r.next_run_at = None \/ Get(r.next_run_at) <= t)
    /\ (r.locked_until = None \/ Get(r.locked_until) <= t)

\* Candidates without FOR UPDATE SKIP LOCKED: rows locked by a statement in
\* flight are returned too.
Candidates_NoSkip(wfs, t, locked) ==
    {i \in DOMAIN wfs : ClaimPredicate(wfs[i], t)}

\* The rows the sub-select of the claim statement can return: they satisfy
\* the predicate and no other statement in flight holds their row lock
\* (FOR UPDATE SKIP LOCKED).
Candidates(wfs, t, locked) ==
    {i \in DOMAIN wfs : ClaimPredicate(wfs[i], t) /\ i \notin locked}

\* FirstId with the order reversed.
FirstId_Last(ids) == CHOOSE i \in ids : \A j \in ids : i >= j

\* ORDER BY id ... LIMIT 1
FirstId(ids) == CHOOSE i \in ids : \A j \in ids : i <= j

\* claim_update without the increment of attempts.
claim_update_NoCount(wfs, id, worker_id, t) ==
    [wfs EXCEPT ![id] =
        [@ EXCEPT !.status = "running",
                  !.locked_until = Some(t + LockTimeoutSecs),
                  !.worker_id = Some(worker_id),
                  !.started_at = IF @ = None THEN Some(t) ELSE @,
                  !.updated_at = t]]

\* UPDATE workflows SET status = 'running', attempts = attempts + 1,
\*   locked_until = $1, worker_id = $2,
\*   started_at = COALESCE(started_at, NOW()), updated_at = NOW() WHERE id = ..
claim_update(wfs, id, worker_id, t) ==
    [wfs EXCEPT ![id] =
        [@ EXCEPT !.status = "running",
                  !.attempts = @ + 1,
                  !.locked_until = Some(t + LockTimeoutSecs),
                  !.worker_id = Some(worker_id),
                  !.started_at = IF @ = None THEN Some(t) ELSE @,
                  !.updated_at = t]]

\* mark_running that acts only on a Pending row.
mark_running_IfPending(wfs, id, worker_id, lock_timeout, at) ==
    IF wfs[id].status /= "pending" THEN wfs
    ELSE [wfs EXCEPT ![id] =
            [@ EXCEPT !.attempts = @ + 1,
                      !.status = "running",
                      !.locked_until = Some(at + lock_timeout),
                      !.worker_id = Some(worker_id),
                      !.started_at = IF IsSome(@) THEN @ ELSE Some(at),
                      !.updated_at = at]]

\* store::mark_running on an existing row: find_by_id, then the update of
\* attempts, status, locked_until, worker_id, started_at and updated_at.
mark_running(wfs, id, worker_id, lock_timeout, at) ==
    [wfs EXCEPT ![id] =
        [@ EXCEPT !.attempts = @ + 1,
                  !.status = "running",
                  !.locked_until = Some(at + lock_timeout),
                  !.worker_id = Some(worker_id),
                  !.started_at = IF IsSome(@) THEN @ ELSE Some(at),
                  !.updated_at = at]]

\* refresh_lock that also gives the row to no worker.
refresh_lock_ClearWorker(wfs, id, t) ==
    [wfs EXCEPT ![id] =
        [@ EXCEPT !.locked_until = Some(t + LockTimeoutSecs),
                  !.worker_id = None,
                  !.updated_at = t]]

refresh_lock(wfs, id, t) ==
    [wfs EXCEPT ![id] =
        [@ EXCEPT !.locked_until = Some(t + LockTimeoutSecs),
                  !.updated_at = t]]

mark_succeeded(wfs, id, output, t) ==
    [wfs EXCEPT ![id] =
        [@ EXCEPT !.status = "succeeded",
                  !.output = Some(output),
                  !.error = None,
                  !.completed_at = Some(t),
                  !.locked_until = None,
                  !.worker_id = None,
                  !.updated_at = t]]

\* requeue that keeps the lease and the worker of the failed attempt.
requeue_KeepLease(wfs, id, error, next_run_at, t) ==
    [wfs EXCEPT ![id] =
        [@ EXCEPT !.status = "pending",
                  !.error = Some(error),
                  !.next_run_at = Some(next_run_at),
                  !.updated_at = t]]

requeue(wfs, id, error, next_run_at, t) ==
    [wfs EXCEPT ![id] =
        [@ EXCEPT !.status = "pending",
                  !.error = Some(error),
                  !.next_run_at = Some(next_run_at),
                  !.locked_until = None,
                  !.worker_id = None,
                  !.updated_at = t]]

mark_failed(wfs, id, error, t) ==
    [wfs EXCEPT ![id] =
        [@ EXCEPT !.status = "failed",
                  !.error = Some(error),
                  !.completed_at = Some(t),
                  !.locked_until = None,
                  !.worker_id = None,
                  !.updated_at = t]]

\* ---------------------------------------------------------------- store: workflow_steps
\* A lookup returns the id of the row found, 0 when there is none.
load_step(sts, workflow_id, step_index, step_name) ==
    LET ids == {i \in DOMAIN sts : /\ sts[i].workflow_id = workflow_id
                                   /\ sts[i].step_index = step_index
                                   /\ sts[i].step_name = step_name}
    IN  IF ids = {} THEN 0 ELSE FirstId(ids)

load_step_by_index(sts, workflow_id, step_index) ==
    LET ids == {i \in DOMAIN sts : /\ sts[i].workflow_id = workflow_id
                                   /\ sts[i].step_index = step_index}
    IN  IF ids = {} THEN 0 ELSE FirstId(ids)

insert_step_running(sts, workflow_id, step_index, step_name, input) ==
    Append(sts, [workflow_id |-> workflow_id, step_index |-> step_index,
                 step_name |-> step_name, status |-> "running",
                 input |-> input, output |-> None, error |-> None,
                 attempts |-> 1])

\* update_step_running that leaves attempts as it was.
update_step_running_NoCount(sts, id, input) ==
    [sts EXCEPT ![id] = [@ EXCEPT !.status = "running", !.input = input]]

update_step_running(sts, id, input) ==
    [sts EXCEPT ![id] =
        [@ EXCEPT !.status = "running", !.input = input, !.attempts = @ + 1]]

\* mark_step_succeeded that stores the status without the output.
mark_step_succeeded_NoOutput(sts, id, output) ==
    [sts EXCEPT ![id] =
        [@ EXCEPT !.status = "succeeded", !.error = None]]

mark_step_succeeded(sts, id, output) ==
    [sts EXCEPT ![id] =
        [@ EXCEPT !.status = "succeeded", !.output = Some(output), !.error = None]]

mark_step_failed(sts, id, error) ==
    [sts EXCEPT ![id] =
        [@ EXCEPT !.status = "failed", !.error = Some(error)]]

\* ---------------------------------------------------------------- initial state
\* The workflows of the registry are given by name (Registered).
NoDecl == [module |-> <<>>, fn |-> <<>>]

\* Nobody waits.
\* No call of store::mark_running yet.
NoMarks == [calls |-> 0, last |-> <<>>]
NoWait == [pc |-> "idle", id |-> 0, slept |-> FALSE, result |-> ""]
NoTxn == [row |-> 0, at |-> 0]
StepKeys == (1..MaxWorkflows) \X (0..(MaxSteps - 1))

Init ==
    /\ workflows = <<>>
    /\ steps = <<>>
    /\ now = 0
    /\ loop = [w \in Workers |-> "acquire"]
    /\ permits = [w \in Workers |-> Concurrency]
    /\ txn = [w \in Workers |-> NoTxn]
    /\ tasks = {}
    /\ bodyCalls = [k \in StepKeys |-> 0]
    /\ claims = [i \in 1..MaxWorkflows |-> 0]
    /\ requeues = [i \in 1..MaxWorkflows |-> 0]
    /\ starts = <<>>
    /\ marks = NoMarks
    /\ waiter = NoWait
    /\ decl = NoDecl

\* ---------------------------------------------------------------- callers
\* store::insert_workflow called directly (as the tests do): any name.
InsertWorkflow(name, max_attempts, maxRows) ==
    /\ Len(workflows) < maxRows
    /\ workflows' = insert_workflow(workflows, name, WorkflowInput, max_attempts, now)
    /\ UNCHANGED <<marks, decl, waiter, steps, now, loop, permits, txn, tasks, bodyCalls, claims, requeues, starts>>

\* start_named without the registry check.
StartNamedUnregistered_Insert(name, maxStarts) ==
    /\ Len(starts) < maxStarts
    /\ ~RegistryFind(name)
    /\ Len(workflows) < MaxWorkflows
    /\ workflows' = insert_workflow(workflows, name, WorkflowInput, ConfigMaxAttempts, now)
    /\ starts' = Append(starts, [name |-> name, ok |-> TRUE, id |-> Len(workflows) + 1])
    /\ UNCHANGED <<marks, decl, waiter, steps, now, loop, permits, txn, tasks, bodyCalls, claims, requeues>>

\* start_named: the registry check, then insert_workflow with the configured
\* max_attempts.
StartNamedUnregistered(name, maxStarts) ==
    /\ Len(starts) < maxStarts
    /\ ~RegistryFind(name)
    /\ starts' = Append(starts, [name |-> name, ok |-> FALSE, id |-> 0])
    /\ UNCHANGED <<marks, decl, waiter, workflows, steps, now, loop, permits, txn, tasks, bodyCalls, claims, requeues>>

StartNamedRegistered(name, maxRows, maxStarts) ==
    /\ Len(starts) < maxStarts
    /\ RegistryFind(name)
    /\ Len(workflows) < maxRows
    /\ workflows' = insert_workflow(workflows, name, WorkflowInput, ConfigMaxAttempts, now)
    /\ starts' = Append(starts, [name |-> name, ok |-> TRUE, id |-> Len(workflows) + 1])
    /\ UNCHANGED <<marks, decl, waiter, steps, now, loop, permits, txn, tasks, bodyCalls, claims, requeues>>

\* ---------------------------------------------------------------- the clock
Tick(maxTime) ==
    /\ now < maxTime
    /\ now' = now + 1
    /\ UNCHANGED <<marks, decl, waiter, workflows, steps, loop, permits, txn, tasks, bodyCalls, claims, requeues, starts>>

\* The clock of a run in which time advances: it goes on while a requeued
\* row waits for its next_run_at.
TickUntilDue(maxTime) ==
    /\ \/ now < maxTime
       \/ \E id \in DOMAIN workflows :
             /\ workflows[id].status = "pending"
             /\ IsSome(workflows[id].next_run_at)
             /\ Get(workflows[id].next_run_at) > now
    /\ now' = now + 1
    /\ UNCHANGED <<marks, decl, waiter, workflows, steps, loop, permits, txn, tasks, bodyCalls, claims, requeues, starts>>

\* ---------------------------------------------------------------- WorkflowWorker::run
\* Acquire that waits for no permit and takes none.
Acquire_NoPermit(w) ==
    /\ loop[w] = "acquire"
    /\ loop' = [loop EXCEPT ![w] = "claim"]
    /\ UNCHANGED <<marks, decl, waiter, workflows, steps, now, permits, txn, tasks, bodyCalls, claims, requeues, starts>>

\* semaphore.acquire_owned()
Acquire(w) ==
    /\ loop[w] = "acquire"
    /\ permits[w] > 0
    /\ permits' = [permits EXCEPT ![w] = @ - 1]
    /\ loop' = [loop EXCEPT ![w] = "claim"]
    /\ UNCHANGED <<marks, decl, waiter, workflows, steps, now, txn, tasks, bodyCalls, claims, requeues, starts>>

LockedByOthers(w) == {txn[v].row : v \in Workers \ {w}} \ {0}

\* claim_next_workflow, first half: the sub-select finds a row and locks it.
ClaimSelect(w) ==
    /\ loop[w] = "claim"
    /\ Candidates(workflows, now, LockedByOthers(w)) /= {}
    /\ txn' = [txn EXCEPT ![w] =
                 [row |-> FirstId(Candidates(workflows, now, LockedByOthers(w))),
                  at |-> now]]
    /\ loop' = [loop EXCEPT ![w] = "update"]
    /\ UNCHANGED <<marks, decl, waiter, workflows, steps, now, permits, tasks, bodyCalls, claims, requeues, starts>>

NewTask(w, id, r) ==
    [worker |-> w, id |-> id, name |-> r.name, input |-> r.input,
     attempts |-> r.attempts, max_attempts |-> r.max_attempts,
     pc |-> "find", step_index |-> 0, step_name |-> "",
     ok |-> TRUE, val |-> 0, err |-> "", frames |-> <<>>]

\* claim_next_workflow, second half: the UPDATE .. RETURNING commits, and
\* run() spawns process_claimed_workflow with the permit.
ClaimUpdate(w) ==
    /\ loop[w] = "update"
    /\ LET id == txn[w].row
           wfs == claim_update(workflows, id, w, txn[w].at)
       IN  /\ workflows' = wfs
           /\ tasks' = tasks \cup {NewTask(w, id, wfs[id])}
           /\ claims' = [claims EXCEPT ![id] = @ + 1]
    /\ txn' = [txn EXCEPT ![w] = NoTxn]
    /\ loop' = [loop EXCEPT ![w] = "acquire"]
    /\ UNCHANGED <<marks, decl, waiter, steps, now, permits, bodyCalls, requeues, starts>>

\* ClaimNone that keeps the permit.
ClaimNone_KeepPermit(w) ==
    /\ loop[w] = "claim"
    /\ Candidates(workflows, now, LockedByOthers(w)) = {}
    /\ loop' = [loop EXCEPT ![w] = "acquire"]
    /\ UNCHANGED <<marks, decl, waiter, workflows, steps, now, permits, txn, tasks, bodyCalls, claims, requeues, starts>>

\* claim_next_workflow returns Ok(None): drop(permit), sleep(poll), and the
\* loop starts over.  The sleep changes no state; the time it takes is Tick's.
ClaimNone(w) ==
    /\ loop[w] = "claim"
    /\ Candidates(workflows, now, LockedByOthers(w)) = {}
    /\ permits' = [permits EXCEPT ![w] = @ + 1]
    /\ loop' = [loop EXCEPT ![w] = "acquire"]
    /\ UNCHANGED <<marks, decl, waiter, workflows, steps, now, txn, tasks, bodyCalls, claims, requeues, starts>>

\* claim_next_workflow returns Err (the store is unreachable, or the backend
\* is not Postgres): the `?` in run() returns the error from run().
ClaimError(w) ==
    /\ loop[w] = "claim"
    /\ permits' = [permits EXCEPT ![w] = @ + 1]
    /\ loop' = [loop EXCEPT ![w] = "exited"]
    /\ UNCHANGED <<marks, decl, waiter, workflows, steps, now, txn, tasks, bodyCalls, claims, requeues, starts>>

\* The worker process dies: its loop and its executions stop where they
\* are, its claim statement in flight is rolled back.  No store operation
\* is called.
Crash(w) ==
    /\ loop[w] /= "crashed"
    /\ loop' = [loop EXCEPT ![w] = "crashed"]
    /\ tasks' = {t \in tasks : t.worker /= w}
    /\ txn' = [txn EXCEPT ![w] = NoTxn]
    /\ permits' = [permits EXCEPT ![w] = Concurrency]
    /\ UNCHANGED <<marks, decl, waiter, workflows, steps, now, bodyCalls, claims, requeues, starts>>

\* ---------------------------------------------------------------- process_claimed_workflow
\* The spawned closure ends: drop(permit).
Finished(t) ==
    /\ tasks' = tasks \ {t}
    /\ permits' = [permits EXCEPT ![t.worker] = @ + 1]

Moved(t, u) == tasks' = (tasks \ {t}) \cup {u}

\* ProcessUnregistered sending the row through the retry path.
ProcessUnregistered_Requeue(t) ==
    /\ t.pc = "find"
    /\ ~RegistryFind(t.name)
    /\ workflows' = requeue(workflows, t.id, "Workflow not registered",
                            now + RetryBackoffSecs * t.attempts, now)
    /\ requeues' = [requeues EXCEPT ![t.id] = @ + 1]
    /\ Finished(t)
    /\ UNCHANGED <<marks, decl, waiter, steps, now, loop, txn, bodyCalls, claims, starts>>

\* registry::find(&claimed.name) is None: mark_failed, return Ok(()).
ProcessUnregistered(t) ==
    /\ t.pc = "find"
    /\ ~RegistryFind(t.name)
    /\ workflows' = mark_failed(workflows, t.id, "Workflow not registered", now)
    /\ Finished(t)
    /\ UNCHANGED <<marks, decl, waiter, steps, now, loop, txn, bodyCalls, claims, requeues, starts>>

\* ProcessEnter without the registry lookup: a body starts for any name.
ProcessEnter_NoFind(t) ==
    /\ t.pc = "find"
    /\ Moved(t, [t EXCEPT !.pc = "wf", !.step_index = 0])
    /\ UNCHANGED <<marks, decl, waiter, workflows, steps, now, loop, permits, txn, bodyCalls, claims, requeues, starts>>

\* The entry is found: WorkflowContext::new (step counter 0), and the
\* registered body starts.
ProcessEnter(t) ==
    /\ t.pc = "find"
    /\ RegistryFind(t.name)
    /\ Moved(t, [t EXCEPT !.pc = "wf", !.step_index = 0])
    /\ UNCHANGED <<marks, decl, waiter, workflows, steps, now, loop, permits, txn, bodyCalls, claims, requeues, starts>>

\* ---------------------------------------------------------------- WorkflowContext::run_step_with_input
\* The workflow body is any code: at each point it calls a step of any name,
\* or returns.  A step's error is returned by the body (the `?` of the
\* documented form).
InBody(t, maxSteps) == t.pc = "wf" /\ t.ok /\ t.step_index < maxSteps

\* RunStepMemo without the test of the status: the Succeeded row is run
\* again like any row found.
RunStepMemo_Rerun(t, step_name, maxSteps) ==
    /\ InBody(t, maxSteps)
    /\ LET id == load_step(steps, t.id, t.step_index, step_name)
       IN  /\ id /= 0
           /\ steps[id].status = "succeeded"
           /\ steps' = update_step_running(steps, id, StepInput)
    /\ Moved(t, [t EXCEPT !.pc = "refresh1", !.step_index = @ + 1,
                          !.step_name = step_name])
    /\ UNCHANGED <<marks, decl, waiter, workflows, now, loop, permits, txn, bodyCalls, claims, requeues, starts>>

\* fetch_add, load_step finds a Succeeded row: the stored output is
\* deserialized; refresh_lock and the return follow (MemoReturn).
RunStepMemo(t, step_name, maxSteps) ==
    /\ InBody(t, maxSteps)
    /\ LET id == load_step(steps, t.id, t.step_index, step_name)
       IN  /\ id /= 0
           /\ steps[id].status = "succeeded"
           /\ IF IsSome(steps[id].output) /\ FromJsonOk(Get(steps[id].output))
              THEN Moved(t, [t EXCEPT !.pc = "memo", !.step_index = @ + 1,
                                      !.step_name = step_name,
                                      !.val = FromJson(Get(steps[id].output))])
              ELSE Moved(t, [t EXCEPT !.step_index = @ + 1,
                                      !.step_name = step_name, !.ok = FALSE,
                                      !.err = "Step output missing for succeeded step"])
    /\ UNCHANGED <<marks, decl, waiter, workflows, steps, now, loop, permits, txn, bodyCalls, claims, requeues, starts>>

\* RunStepRetry that inserts a second row for the index instead of updating
\* the one found.
RunStepRetry_Insert(t, step_name, maxSteps) ==
    /\ InBody(t, maxSteps)
    /\ LET id == load_step(steps, t.id, t.step_index, step_name)
       IN  /\ id /= 0
           /\ steps[id].status /= "succeeded"
           /\ steps' = insert_step_running(steps, t.id, t.step_index, step_name, StepInput)
    /\ Moved(t, [t EXCEPT !.pc = "refresh1", !.step_index = @ + 1,
                          !.step_name = step_name])
    /\ UNCHANGED <<marks, decl, waiter, workflows, now, loop, permits, txn, bodyCalls, claims, requeues, starts>>

\* load_step finds a row that is not Succeeded: update_step_running.
RunStepRetry(t, step_name, maxSteps) ==
    /\ InBody(t, maxSteps)
    /\ LET id == load_step(steps, t.id, t.step_index, step_name)
       IN  /\ id /= 0
           /\ steps[id].status /= "succeeded"
           /\ steps' = update_step_running(steps, id, StepInput)
    /\ Moved(t, [t EXCEPT !.pc = "refresh1", !.step_index = @ + 1,
                          !.step_name = step_name])
    /\ UNCHANGED <<marks, decl, waiter, workflows, now, loop, permits, txn, bodyCalls, claims, requeues, starts>>

\* RunStepMismatch without the comparison of the names: the step is
\* inserted.
RunStepMismatch_Insert(t, step_name, maxSteps) ==
    /\ InBody(t, maxSteps)
    /\ load_step(steps, t.id, t.step_index, step_name) = 0
    /\ load_step_by_index(steps, t.id, t.step_index) /= 0
    /\ steps' = insert_step_running(steps, t.id, t.step_index, step_name, StepInput)
    /\ Moved(t, [t EXCEPT !.pc = "refresh1", !.step_index = @ + 1,
                          !.step_name = step_name])
    /\ UNCHANGED <<marks, decl, waiter, workflows, now, loop, permits, txn, bodyCalls, claims, requeues, starts>>

\* load_step finds nothing, load_step_by_index finds a row of another name:
\* the step-mismatch error is returned.
RunStepMismatch(t, step_name, maxSteps) ==
    /\ InBody(t, maxSteps)
    /\ load_step(steps, t.id, t.step_index, step_name) = 0
    /\ LET other == load_step_by_index(steps, t.id, t.step_index)
       IN  IF other = 0 THEN FALSE ELSE steps[other].step_name /= step_name
    /\ Moved(t, [t EXCEPT !.step_index = @ + 1, !.step_name = step_name,
                          !.ok = FALSE, !.err = "Workflow step mismatch"])
    /\ UNCHANGED <<marks, decl, waiter, workflows, steps, now, loop, permits, txn, bodyCalls, claims, requeues, starts>>

\* RunStepInsert that gives the row the index after the one it read.
RunStepInsert_NextIndex(t, step_name, maxSteps) ==
    /\ InBody(t, maxSteps)
    /\ load_step(steps, t.id, t.step_index, step_name) = 0
    /\ LET other == load_step_by_index(steps, t.id, t.step_index)
       IN  IF other = 0 THEN TRUE ELSE steps[other].step_name = step_name
    /\ steps' = insert_step_running(steps, t.id, t.step_index + 1, step_name, StepInput)
    /\ Moved(t, [t EXCEPT !.pc = "refresh1", !.step_index = @ + 1,
                          !.step_name = step_name])
    /\ UNCHANGED <<marks, decl, waiter, workflows, now, loop, permits, txn, bodyCalls, claims, requeues, starts>>

\* Neither lookup objects: insert_step_running.
RunStepInsert(t, step_name, maxSteps) ==
    /\ InBody(t, maxSteps)
    /\ load_step(steps, t.id, t.step_index, step_name) = 0
    /\ LET other == load_step_by_index(steps, t.id, t.step_index)
       IN  IF other = 0 THEN TRUE ELSE steps[other].step_name = step_name
    /\ steps' = insert_step_running(steps, t.id, t.step_index, step_name, StepInput)
    /\ Moved(t, [t EXCEPT !.pc = "refresh1", !.step_index = @ + 1,
                          !.step_name = step_name])
    /\ UNCHANGED <<marks, decl, waiter, workflows, now, loop, permits, txn, bodyCalls, claims, requeues, starts>>

\* InvokeBody without the refresh of the lease.
InvokeBody_NoRefresh(t) ==
    /\ t.pc = "refresh1"
    /\ bodyCalls' = [bodyCalls EXCEPT ![<<t.id, t.step_index - 1>>] = @ + 1]
    /\ Moved(t, [t EXCEPT !.pc = "body"])
    /\ UNCHANGED <<marks, decl, waiter, workflows, steps, now, loop, permits, txn, claims, requeues, starts>>

\* refresh_lock, then f() is called: the step body starts.
InvokeBody(t) ==
    /\ t.pc = "refresh1"
    /\ workflows' = refresh_lock(workflows, t.id, now)
    /\ bodyCalls' = [bodyCalls EXCEPT ![<<t.id, t.step_index - 1>>] = @ + 1]
    /\ Moved(t, [t EXCEPT !.pc = "body"])
    /\ UNCHANGED <<marks, decl, waiter, steps, now, loop, permits, txn, claims, requeues, starts>>

\* The body returns Ok(value): load_step, mark_step_succeeded.
BodyOk(t, value) ==
    /\ t.pc = "body"
    /\ LET id == load_step(steps, t.id, t.step_index - 1, t.step_name)
       IN  steps' = IF id /= 0 THEN mark_step_succeeded(steps, id, ToJson(value))
                               ELSE steps
    /\ Moved(t, [t EXCEPT !.pc = "refresh2", !.val = value])
    /\ UNCHANGED <<marks, decl, waiter, workflows, now, loop, permits, txn, bodyCalls, claims, requeues, starts>>

\* BodyErr that marks every step row of the workflow Failed.
BodyErr_FailAll(t) ==
    /\ t.pc = "body"
    /\ steps' = [i \in DOMAIN steps |->
                    IF steps[i].workflow_id = t.id
                    THEN [steps[i] EXCEPT !.status = "failed", !.error = Some("boom")]
                    ELSE steps[i]]
    /\ Moved(t, [t EXCEPT !.pc = "refresh2", !.ok = FALSE, !.err = "boom"])
    /\ UNCHANGED <<marks, decl, waiter, workflows, now, loop, permits, txn, bodyCalls, claims, requeues, starts>>

\* The body returns Err: load_step, mark_step_failed.
BodyErr(t) ==
    /\ t.pc = "body"
    /\ LET id == load_step(steps, t.id, t.step_index - 1, t.step_name)
       IN  steps' = IF id /= 0 THEN mark_step_failed(steps, id, "boom")
                               ELSE steps
    /\ Moved(t, [t EXCEPT !.pc = "refresh2", !.ok = FALSE, !.err = "boom"])
    /\ UNCHANGED <<marks, decl, waiter, workflows, now, loop, permits, txn, bodyCalls, claims, requeues, starts>>

\* refresh_lock, and run_step returns the body's result.
StepReturn(t) ==
    /\ t.pc = "refresh2"
    /\ workflows' = refresh_lock(workflows, t.id, now)
    /\ Moved(t, [t EXCEPT !.pc = "wf"])
    /\ UNCHANGED <<marks, decl, waiter, steps, now, loop, permits, txn, bodyCalls, claims, requeues, starts>>

\* The memoized path: refresh_lock, and run_step returns the stored value.
MemoReturn(t) ==
    /\ t.pc = "memo"
    /\ workflows' = refresh_lock(workflows, t.id, now)
    /\ Moved(t, [t EXCEPT !.pc = "wf"])
    /\ UNCHANGED <<marks, decl, waiter, steps, now, loop, permits, txn, bodyCalls, claims, requeues, starts>>

\* ---------------------------------------------------------------- the outcome of the attempt
\* The body returns Ok(output): mark_succeeded.
WorkflowOk(t, value) ==
    /\ t.pc = "wf"
    /\ t.ok
    /\ workflows' = mark_succeeded(workflows, t.id, ToJson(value), now)
    /\ Finished(t)
    /\ UNCHANGED <<marks, decl, waiter, steps, now, loop, txn, bodyCalls, claims, requeues, starts>>

\* The error the body returns: the failed step's, or one of its own.
BodyError(t) == IF t.ok THEN "failed" ELSE t.err

\* AttemptsLeft with the comparison off by one.
AttemptsLeft_Inclusive(t) == t.attempts <= t.max_attempts

\* if claimed.attempts < claimed.max_attempts
AttemptsLeft(t) == t.attempts < t.max_attempts

\* WorkflowRequeue with a backoff that does not grow with the attempts.
WorkflowRequeue_FixedBackoff(t) ==
    /\ t.pc = "wf"
    /\ AttemptsLeft(t)
    /\ workflows' = requeue(workflows, t.id, BodyError(t), now + RetryBackoffSecs, now)
    /\ requeues' = [requeues EXCEPT ![t.id] = @ + 1]
    /\ Finished(t)
    /\ UNCHANGED <<marks, decl, waiter, steps, now, loop, txn, bodyCalls, claims, starts>>

\* The body returns Err with attempts left: requeue with the linear backoff.
WorkflowRequeue(t) ==
    /\ t.pc = "wf"
    /\ AttemptsLeft(t)
    /\ workflows' = requeue(workflows, t.id, BodyError(t),
                            now + RetryBackoffSecs * t.attempts, now)
    /\ requeues' = [requeues EXCEPT ![t.id] = @ + 1]
    /\ Finished(t)
    /\ UNCHANGED <<marks, decl, waiter, steps, now, loop, txn, bodyCalls, claims, starts>>

\* The body returns Err with no attempt left: mark_failed.
WorkflowFail(t) ==
    /\ t.pc = "wf"
    /\ ~AttemptsLeft(t)
    /\ workflows' = mark_failed(workflows, t.id, BodyError(t), now)
    /\ Finished(t)
    /\ UNCHANGED <<marks, decl, waiter, steps, now, loop, txn, bodyCalls, claims, requeues, starts>>

\* BookkeepingError that gives the row up: the lease and the worker are
\* cleared.
BookkeepingError_ReleaseRow(t) ==
    /\ \/ t.pc = "find" /\ ~RegistryFind(t.name)
       \/ t.pc = "wf"
    /\ workflows' = [workflows EXCEPT ![t.id] =
                        [@ EXCEPT !.locked_until = None, !.worker_id = None]]
    /\ Finished(t)
    /\ UNCHANGED <<marks, decl, waiter, steps, now, loop, txn, bodyCalls, claims, requeues, starts>>

\* mark_failed, mark_succeeded or requeue returns Err (the store is
\* unreachable): the `?` returns it from process_claimed_workflow, the
\* spawned closure prints it and drops the permit.  No row is written.
BookkeepingError(t) ==
    /\ \/ t.pc = "find" /\ ~RegistryFind(t.name)
       \/ t.pc = "wf"
    /\ Finished(t)
    /\ UNCHANGED <<marks, decl, waiter, workflows, steps, now, loop, txn, bodyCalls, claims, requeues, starts>>

\* ---------------------------------------------------------------- WorkflowHandle::wait
\* wait() is called on the handle of an existing row.
WaitCall(id) ==
    /\ waiter.pc = "idle"
    /\ id \in DOMAIN workflows
    /\ waiter' = [waiter EXCEPT !.pc = "poll", !.id = id]
    /\ UNCHANGED <<marks, decl, workflows, steps, now, loop, permits, txn, tasks, bodyCalls, claims, requeues, starts>>

\* WaitStatus that returns whatever status it read.
WaitStatus_AnyStatus ==
    /\ waiter.pc = "poll"
    /\ waiter' = [waiter EXCEPT !.pc = "returned",
                       !.result = Get(StatusFromStr(workflows[waiter.id].status))]
    /\ UNCHANGED <<marks, decl, workflows, steps, now, loop, permits, txn, tasks, bodyCalls, claims, requeues, starts>>

\* self.status() reads the row; Succeeded and Failed are returned, any other
\* status sends the caller to sleep(poll).
WaitStatus ==
    /\ waiter.pc = "poll"
    /\ LET status == StatusFromStr(workflows[waiter.id].status)
       IN  IF status \in {Some("Succeeded"), Some("Failed")}
           THEN waiter' = [waiter EXCEPT !.pc = "returned", !.result = Get(status)]
           ELSE IF status = None
           THEN waiter' = [waiter EXCEPT !.pc = "error"]
           ELSE waiter' = [waiter EXCEPT !.pc = "sleep", !.slept = TRUE]
    /\ UNCHANGED <<marks, decl, workflows, steps, now, loop, permits, txn, tasks, bodyCalls, claims, requeues, starts>>

\* self.status() returns Err (the store is unreachable): the `?` returns it
\* from wait().
WaitStatusError ==
    /\ waiter.pc = "poll"
    /\ waiter' = [waiter EXCEPT !.pc = "error"]
    /\ UNCHANGED <<marks, decl, workflows, steps, now, loop, permits, txn, tasks, bodyCalls, claims, requeues, starts>>

\* The sleep ends and the loop of wait() starts over.
WaitSleep ==
    /\ waiter.pc = "sleep"
    /\ waiter' = [waiter EXCEPT !.pc = "poll"]
    /\ UNCHANGED <<marks, decl, workflows, steps, now, loop, permits, txn, tasks, bodyCalls, claims, requeues, starts>>

\* ---------------------------------------------------------------- start_workflow!
\* Text is a sequence of characters.  An identifier has no space and no
\* colon; module_path!() and a stringified path are identifiers joined by
\* "::", which stringify! may print with spaces around it.
Idents == {<<"k">>, <<"w", "f">>}
ModulePaths == UNION {[1..n -> Idents] : n \in 1..MaxPathLen}
ColonColon == <<":", ":">>

RECURSIVE JoinPath(_, _)
JoinPath(segs, sep) ==
    IF Len(segs) = 1 THEN segs[1]
    ELSE segs[1] \o sep \o JoinPath(Tail(segs), sep)

\* module_path!()
ModulePathText(module) == JoinPath(module, ColonColon)

\* stringify!($workflow) for a $workflow:path
Stringify(path, spaced) ==
    JoinPath(path, IF spaced THEN <<" ">> \o ColonColon \o <<" ">> ELSE ColonColon)

\* __name.contains("::")
ContainsColonColon(text) ==
    \E i \in 1..(Len(text) - 1) : text[i] = ":" /\ text[i + 1] = ":"

\* __name.replace(' ', "")
RemoveSpaces(text) == SelectSeq(text, LAMBDA c : c /= " ")

\* StartWorkflowName without the removal of the spaces.
StartWorkflowName_KeepSpaces(text, module) ==
    IF ContainsColonColon(text) THEN text
    ELSE ModulePathText(module) \o ColonColon \o text

\* The name start_workflow! passes to start_named, for the stringified
\* path and the module of the call.
StartWorkflowName(text, module) ==
    RemoveSpaces(IF ContainsColonColon(text) THEN text
                 ELSE ModulePathText(module) \o ColonColon \o text)

\* The key #[workflow] submits to the registry:
\* concat!(module_path!(), "::", stringify!(fn_name)).
RegistryKey(d) == ModulePathText(d.module) \o ColonColon \o d.fn

\* start_workflow!(path) called in a module: the name is computed, and
\* start_named looks it up in the registry and inserts the row.
StartWorkflowMacro(kind, path, spaced, module) ==
    /\ Len(starts) < MaxNameStarts
    /\ LET name == StartWorkflowName(Stringify(path, spaced), module)
       IN  IF name = RegistryKey(decl)
           THEN /\ workflows' = insert_workflow(workflows, name, WorkflowInput,
                                                ConfigMaxAttempts, now)
                /\ starts' = Append(starts, [kind |-> kind, name |-> name, ok |-> TRUE,
                                             id |-> Len(workflows) + 1])
           ELSE /\ workflows' = workflows
                /\ starts' = Append(starts, [kind |-> kind, name |-> name, ok |-> FALSE,
                                             id |-> 0])
    /\ UNCHANGED <<marks, decl, waiter, steps, now, loop, permits, txn, tasks, bodyCalls, claims, requeues>>

\* ---------------------------------------------------------------- specifications
\* The worker loop of the workers W, without the callers and the clock.
WorkerLoop(W) ==
    \/ \E w \in W : Acquire(w)
    \/ \E w \in W : ClaimSelect(w)
    \/ \E w \in W : ClaimUpdate(w)
    \/ \E w \in W : ClaimNone(w)
    \/ \E w \in W : ClaimError(w)
    \/ \E w \in W : Crash(w)

\* One execution attempt, apart from the step calls.
Attempt ==
    \/ \E t \in tasks : ProcessUnregistered(t)
    \/ \E t \in tasks : ProcessEnter(t)
    \/ \E t \in tasks : InvokeBody(t)
    \/ \E t \in tasks : BodyErr(t)
    \/ \E t \in tasks : StepReturn(t)
    \/ \E t \in tasks : MemoReturn(t)
    \/ \E t \in tasks : WorkflowRequeue(t)
    \/ \E t \in tasks : WorkflowFail(t)

\* The step calls a body makes: up to MaxSteps steps of any names, whose
\* bodies return any values.
StepCalls ==
    \/ \E t \in tasks, n \in StepNames : RunStepMemo(t, n, MaxSteps)
    \/ \E t \in tasks, n \in StepNames : RunStepRetry(t, n, MaxSteps)
    \/ \E t \in tasks, n \in StepNames : RunStepMismatch(t, n, MaxSteps)
    \/ \E t \in tasks, n \in StepNames : RunStepInsert(t, n, MaxSteps)
    \/ \E t \in tasks, v \in Values : BodyOk(t, v)
    \/ \E t \in tasks, v \in Values : WorkflowOk(t, v)

\* The engine: rows are inserted through the store, the worker processes
\* claim through claim_next_workflow and execute what they claim.
Next ==
    \/ \E n \in Names, m \in 0..MaxAttemptsArg : InsertWorkflow(n, m, MaxWorkflows)
    \/ Tick(MaxTime)
    \/ WorkerLoop(Workers)
    \/ Attempt
    \/ StepCalls

Spec == Init /\ [][Next]_vars

\* The callers of start_named beside one worker process.
NextStart ==
    \/ \E n \in Names : StartNamedUnregistered(n, MaxStarts)
    \/ \E n \in Names : StartNamedRegistered(n, MaxWorkflows, MaxStarts)
    \/ \E n \in Names, m \in 0..MaxAttemptsArg : InsertWorkflow(n, m, MaxWorkflows)
    \/ Tick(MaxTime)
    \/ WorkerLoop({"w1"})
    \/ Attempt
    \/ StepCalls

SpecStart == Init /\ [][NextStart]_vars

\* One worker process with MaxPoolWorkflows rows to work on, and a store
\* that can fail in the bookkeeping of an attempt.  The workflow bodies call
\* no step: they return Ok or Err.
PoolKeys == (1..MaxPoolWorkflows) \X (0..(MaxSteps - 1))

InitPool ==
    /\ workflows = <<>>
    /\ steps = <<>>
    /\ now = 0
    /\ loop = [w \in Workers |-> "acquire"]
    /\ permits = [w \in Workers |-> Concurrency]
    /\ txn = [w \in Workers |-> NoTxn]
    /\ tasks = {}
    /\ bodyCalls = [k \in PoolKeys |-> 0]
    /\ claims = [i \in 1..MaxPoolWorkflows |-> 0]
    /\ requeues = [i \in 1..MaxPoolWorkflows |-> 0]
    /\ starts = <<>>
    /\ marks = NoMarks
    /\ waiter = NoWait
    /\ decl = NoDecl

NextPool ==
    \/ \E n \in Names, m \in 0..MaxPoolAttempts : InsertWorkflow(n, m, MaxPoolWorkflows)
    \/ Tick(MaxPoolTime)
    \/ WorkerLoop({"w1"})
    \/ \E t \in tasks : ProcessUnregistered(t)
    \/ \E t \in tasks : ProcessEnter(t)
    \/ \E t \in tasks, v \in Values : WorkflowOk(t, v)
    \/ \E t \in tasks : WorkflowRequeue(t)
    \/ \E t \in tasks : WorkflowFail(t)
    \/ \E t \in tasks : BookkeepingError(t)

SpecPool == InitPool /\ [][NextPool]_vars

\* A caller waits on a handle while one worker process works; the workflow
\* bodies call no step.
NextWait ==
    \/ \E n \in Names, m \in 0..MaxAttemptsArg : InsertWorkflow(n, m, MaxWorkflows)
    \/ Tick(MaxTime)
    \/ WorkerLoop({"w1"})
    \/ \E t \in tasks : ProcessUnregistered(t)
    \/ \E t \in tasks : ProcessEnter(t)
    \/ \E t \in tasks, v \in Values : WorkflowOk(t, v)
    \/ \E t \in tasks : WorkflowRequeue(t)
    \/ \E t \in tasks : WorkflowFail(t)
    \/ \E id \in 1..MaxWorkflows : WaitCall(id)
    \/ WaitStatus
    \/ WaitStatusError
    \/ WaitSleep

SpecWait == Init /\ [][NextWait]_vars

\* A program that declares one #[workflow] function and starts it with
\* start_workflow!: by its short name in the declaring module, by its full
\* path (printed by stringify! with or without spaces), and by its short
\* name in another module.
InitName ==
    /\ workflows = <<>>
    /\ steps = <<>>
    /\ now = 0
    /\ loop = [w \in Workers |-> "acquire"]
    /\ permits = [w \in Workers |-> Concurrency]
    /\ txn = [w \in Workers |-> NoTxn]
    /\ tasks = {}
    /\ bodyCalls = [k \in StepKeys |-> 0]
    /\ claims = [i \in 1..MaxWorkflows |-> 0]
    /\ requeues = [i \in 1..MaxWorkflows |-> 0]
    /\ starts = <<>>
    /\ marks = NoMarks
    /\ waiter = NoWait
    /\ decl \in [module : ModulePaths, fn : Idents]

NextName ==
    \/ StartWorkflowMacro("short", <<decl.fn>>, FALSE, decl.module)
    \/ \E spaced \in BOOLEAN :
         StartWorkflowMacro("qualified", decl.module \o <<decl.fn>>, spaced, decl.module)
    \/ \E m \in ModulePaths \ {decl.module} :
         StartWorkflowMacro("elsewhere", <<decl.fn>>, FALSE, m)

SpecName == InitName /\ [][NextName]_vars

\* ---------------------------------------------------------------- a step called by a step
\* A #[workflow_step] function called inside the body of another one finds
\* the same task-local context (WorkflowContext::current() is Some inside
\* f().await, which is polled inside CONTEXT.scope), so it takes the next
\* index of the same counter.  t.frames holds the steps whose bodies are
\* running, innermost last, each with the index it was given.
\*
\* The program: the workflow calls outer() and then last(); the body of
\* outer() calls inner().  Each function makes the same calls whenever it
\* runs.  NestedCall is the step the code calls next at a point where it
\* is running ("" when the function at that point returns).
NestedCall(t) ==
    IF t.frames = <<>>
    THEN CASE t.step_name = "" -> "outer"
           [] t.step_name = "outer" -> "last"
           [] OTHER -> ""
    ELSE IF t.step_name = "outer" THEN "inner" ELSE ""

\* f() of outer() starts running: its body is workflow code that calls steps.
EnterNested(t) ==
    /\ t.pc = "body"
    /\ t.step_name = "outer"
    /\ Moved(t, [t EXCEPT !.pc = "wf",
                          !.frames = Append(@, [index |-> t.step_index - 1,
                                                name |-> t.step_name])])
    /\ UNCHANGED <<marks, decl, waiter, workflows, steps, now, loop, permits, txn, bodyCalls, claims, requeues, starts>>

\* The body of outer() returns Ok(value): load_step with outer's own index,
\* mark_step_succeeded.
OuterBodyOk(t, value) ==
    /\ t.pc = "wf"
    /\ t.frames /= <<>>
    /\ t.ok
    /\ NestedCall(t) = ""
    /\ LET fr == t.frames[Len(t.frames)]
           id == load_step(steps, t.id, fr.index, fr.name)
       IN  /\ steps' = IF id /= 0 THEN mark_step_succeeded(steps, id, ToJson(value))
                                  ELSE steps
           /\ Moved(t, [t EXCEPT !.pc = "refresh2", !.val = value,
                                 !.step_name = fr.name,
                                 !.frames = SubSeq(@, 1, Len(@) - 1)])
    /\ UNCHANGED <<marks, decl, waiter, workflows, now, loop, permits, txn, bodyCalls, claims, requeues, starts>>

\* The body of outer() returns Err, the inner step's (`?`) or its own:
\* load_step with outer's own index, mark_step_failed.
OuterBodyErr(t) ==
    /\ t.pc = "wf"
    /\ t.frames /= <<>>
    /\ ~t.ok \/ NestedCall(t) = ""
    /\ LET fr == t.frames[Len(t.frames)]
           id == load_step(steps, t.id, fr.index, fr.name)
           e == IF t.ok THEN "boom" ELSE t.err
       IN  /\ steps' = IF id /= 0 THEN mark_step_failed(steps, id, e) ELSE steps
           /\ Moved(t, [t EXCEPT !.pc = "refresh2", !.ok = FALSE, !.err = e,
                                 !.step_name = fr.name,
                                 !.frames = SubSeq(@, 1, Len(@) - 1)])
    /\ UNCHANGED <<marks, decl, waiter, workflows, now, loop, permits, txn, bodyCalls, claims, requeues, starts>>

NestedKeys == (1..MaxWorkflows) \X (0..(MaxNestedSteps - 1))

InitNested ==
    /\ workflows = <<>>
    /\ steps = <<>>
    /\ now = 0
    /\ loop = [w \in Workers |-> "acquire"]
    /\ permits = [w \in Workers |-> Concurrency]
    /\ txn = [w \in Workers |-> NoTxn]
    /\ tasks = {}
    /\ bodyCalls = [k \in NestedKeys |-> 0]
    /\ claims = [i \in 1..MaxWorkflows |-> 0]
    /\ requeues = [i \in 1..MaxWorkflows |-> 0]
    /\ starts = <<>>
    /\ marks = NoMarks
    /\ waiter = NoWait
    /\ decl = NoDecl

\* One worker process executing the program above: the leaf steps inner()
\* and last() return Ok or Err, the workflow returns when its calls are
\* made, or with the error of a step.
NextNested ==
    \/ \E n \in Names, m \in 0..MaxAttemptsArg : InsertWorkflow(n, m, MaxWorkflows)
    \/ Tick(MaxTime)
    \/ WorkerLoop({"w1"})
    \/ \E t \in tasks : ProcessUnregistered(t)
    \/ \E t \in tasks : ProcessEnter(t)
    \/ \E t \in tasks : NestedCall(t) /= "" /\ RunStepMemo(t, NestedCall(t), MaxNestedSteps)
    \/ \E t \in tasks : NestedCall(t) /= "" /\ RunStepRetry(t, NestedCall(t), MaxNestedSteps)
    \/ \E t \in tasks : NestedCall(t) /= "" /\ RunStepMismatch(t, NestedCall(t), MaxNestedSteps)
    \/ \E t \in tasks : NestedCall(t) /= "" /\ RunStepInsert(t, NestedCall(t), MaxNestedSteps)
    \/ \E t \in tasks : InvokeBody(t)
    \/ \E t \in tasks : EnterNested(t)
    \/ \E t \in tasks, v \in Values : t.step_name /= "outer" /\ BodyOk(t, v)
    \/ \E t \in tasks : t.step_name /= "outer" /\ BodyErr(t)
    \/ \E t \in tasks, v \in Values : OuterBodyOk(t, v)
    \/ \E t \in tasks : OuterBodyErr(t)
    \/ \E t \in tasks : StepReturn(t)
    \/ \E t \in tasks : MemoReturn(t)
    \/ \E t \in tasks, v \in Values :
          t.frames = <<>> /\ NestedCall(t) = "" /\ WorkflowOk(t, v)
    \/ \E t \in tasks : t.frames = <<>> /\ ~t.ok /\ WorkflowRequeue(t)
    \/ \E t \in tasks : t.frames = <<>> /\ ~t.ok /\ WorkflowFail(t)

SpecNested == InitNested /\ [][NextNested]_vars

\* ---------------------------------------------------------------- store::mark_running
\* A caller of store::mark_running (the tests of the module call it in
\* place of claim_next_workflow) beside one worker process.
MarkTimeouts == {2}     \* the lock_timeout the caller passes, not the one of the configuration

\* The row exists: it is updated and returned as a ClaimedWorkflow.
MarkRunning(id, worker_id, lock_timeout) ==
    /\ marks.calls < MaxMarks
    /\ id \in DOMAIN workflows
    /\ workflows' = mark_running(workflows, id, worker_id, lock_timeout, now)
    /\ marks' = [calls |-> marks.calls + 1,
                 last |-> [id |-> id, worker |-> worker_id,
                           lock_timeout |-> lock_timeout,
                           was |-> workflows[id].status, ok |-> TRUE,
                           claimed |-> [id |-> id,
                                        name |-> workflows'[id].name,
                                        input |-> workflows'[id].input,
                                        attempts |-> workflows'[id].attempts,
                                        max_attempts |-> workflows'[id].max_attempts]]]
    /\ UNCHANGED <<decl, waiter, steps, now, loop, permits, txn, tasks, bodyCalls, claims, requeues, starts>>

\* find_by_id returns None: Err("Workflow not found").
MarkRunningNotFound(id, worker_id, lock_timeout) ==
    /\ marks.calls < MaxMarks
    /\ id \notin DOMAIN workflows
    /\ marks' = [calls |-> marks.calls + 1,
                 last |-> [id |-> id, worker |-> worker_id,
                           lock_timeout |-> lock_timeout,
                           was |-> "", ok |-> FALSE,
                           claimed |-> "Workflow not found"]]
    /\ UNCHANGED <<decl, waiter, workflows, steps, now, loop, permits, txn, tasks, bodyCalls, claims, requeues, starts>>

NextMark ==
    \/ \E n \in Names, m \in 0..MaxAttemptsArg : InsertWorkflow(n, m, MaxPoolWorkflows)
    \/ Tick(MaxPoolTime)
    \/ WorkerLoop({"w1"})
    \/ \E t \in tasks : ProcessUnregistered(t)
    \/ \E t \in tasks : ProcessEnter(t)
    \/ \E t \in tasks, v \in Values : WorkflowOk(t, v)
    \/ \E t \in tasks : WorkflowRequeue(t)
    \/ \E t \in tasks : WorkflowFail(t)
    \/ \E id \in 1..MaxPoolWorkflows, l \in MarkTimeouts : MarkRunning(id, "w2", l)
    \/ \E id \in 1..MaxPoolWorkflows, l \in MarkTimeouts : MarkRunningNotFound(id, "w2", l)

SpecMark == InitPool /\ [][NextMark]_vars

\* A run without a worker crash and without a storage error: one worker
\* process that is scheduled fairly, executions and step bodies that go on
\* until they return, a clock that advances, and a caller of wait() whose
\* polls are scheduled fairly.
LiveLoop(w) ==
    \/ Acquire(w)
    \/ ClaimSelect(w)
    \/ ClaimUpdate(w)
    \/ ClaimNone(w)

LiveWait ==
    \/ WaitStatus
    \/ WaitSleep

NextLive ==
    \/ \E n \in Names, m \in 0..MaxAttemptsArg : InsertWorkflow(n, m, MaxWorkflows)
    \/ TickUntilDue(MaxTime)
    \/ LiveLoop("w1")
    \/ Attempt
    \/ StepCalls
    \/ \E id \in 1..MaxWorkflows : WaitCall(id)
    \/ LiveWait

SpecLive ==
    /\ Init
    /\ [][NextLive]_vars
    /\ WF_vars(TickUntilDue(MaxTime))
    /\ WF_vars(LiveLoop("w1"))
    /\ WF_vars(Attempt \/ StepCalls)
    /\ WF_vars(LiveWait)

\* ---------------------------------------------------------------- claims
\* The same execution before and after a step of the system.
SameTask(t, u) == t.worker = u.worker /\ t.id = u.id /\ t.attempts = u.attempts

\* The step row at an index of a workflow, 0 when there is none.
RowAt(workflow_id, step_index) == load_step_by_index(steps, workflow_id, step_index)

SucceededAt(workflow_id, step_index) ==
    LET r == RowAt(workflow_id, step_index)
    IN  IF r = 0 THEN FALSE ELSE steps[r].status = "succeeded"

\* C1: once the step row at (workflow, i) is Succeeded, a run_step call that
\* reaches index i with the row's step name takes the memoized path: it
\* holds the stored output as its result, writes no step row and invokes no
\* body; no body invocation is ever counted for an index whose row is
\* Succeeded, and the value a memoized call is about to return is the one
\* stored in the row.
C1_MemoCall ==
    \A t \in tasks : \A u \in tasks' :
        (SameTask(t, u) /\ u.step_index = t.step_index + 1
           /\ SucceededAt(t.id, t.step_index)
           /\ steps[RowAt(t.id, t.step_index)].step_name = u.step_name)
        => /\ u.pc = "memo"
           /\ u.ok
           /\ u.val = FromJson(Get(steps[RowAt(t.id, t.step_index)].output))
           /\ steps' = steps
           /\ bodyCalls' = bodyCalls

C1_NoInvocation ==
    \A k \in StepKeys :
        bodyCalls'[k] /= bodyCalls[k] => ~SucceededAt(k[1], k[2])

C1_MemoValue ==
    \A t \in tasks :
        t.pc = "memo" =>
            /\ SucceededAt(t.id, t.step_index - 1)
            /\ steps[RowAt(t.id, t.step_index - 1)].output = Some(ToJson(t.val))

C1_Memoized == [](C1_MemoValue) /\ [][C1_MemoCall /\ C1_NoInvocation]_vars

\* A second attempt has reached a Succeeded step and holds its stored value,
\* which is not the value its own body would have been free to return.
C1_Witness ==
    \E t \in tasks :
        /\ t.pc = "memo"
        /\ t.attempts = 2
        /\ t.val = 2
        /\ bodyCalls[<<t.id, t.step_index - 1>>] = 1

\* C2: however the claim statements of the workers interleave, a row is
\* returned by at most one claim between two requeues of it: at most one
\* statement in flight holds the row, only while the row is Pending, at most
\* one execution of the row exists, and the claims that returned it exceed
\* its requeues by at most one.
C2_SingleClaim ==
    \A id \in DOMAIN workflows :
        /\ claims[id] - requeues[id] <= 1
        /\ Cardinality({w \in Workers : txn[w].row = id}) <= 1
        /\ \A w \in Workers : txn[w].row = id => workflows[id].status = "pending"
        /\ Cardinality({t \in tasks : t.id = id}) <= 1

\* Two workers are inside claim_next_workflow at once: one holds the only
\* row, the other is about to run its sub-select.
C2_Witness ==
    \E w \in Workers : \E v \in Workers \ {w} :
        /\ txn[w].row /= 0
        /\ loop[v] = "claim"
        /\ Len(workflows) = 1

\* C3: a Running row whose worker has crashed satisfies the claim predicate
\* again once locked_until has passed.
C3_StaleLeaseClaimable ==
    \A id \in DOMAIN workflows :
        LET r == workflows[id]
        IN  (/\ r.status = "running"
             /\ IsSome(r.worker_id)
             /\ loop[Get(r.worker_id)] = "crashed"
             /\ IsSome(r.locked_until)
             /\ Get(r.locked_until) <= now)
            => ClaimPredicate(r, now)

\* C4: once a row is Succeeded or Failed, no step of the system changes its
\* status, output or completed_at, no claim returns it and no claim
\* statement selects it.
C4_TerminalStep ==
    \A id \in DOMAIN workflows :
        workflows[id].status \in {"succeeded", "failed"} =>
            /\ workflows'[id].status = workflows[id].status
            /\ workflows'[id].output = workflows[id].output
            /\ workflows'[id].completed_at = workflows[id].completed_at
            /\ claims'[id] = claims[id]
            /\ \A w \in Workers : txn'[w].row /= id

C4_TerminalImmutable == [][C4_TerminalStep]_vars

\* A worker polls for work after a requeued row has failed for good and its
\* next_run_at has passed.
C4_Witness ==
    \E id \in DOMAIN workflows :
        /\ workflows[id].status = "failed"
        /\ IsSome(workflows[id].next_run_at)
        /\ Get(workflows[id].next_run_at) <= now
        /\ \E w \in Workers : loop[w] = "claim"

\* C5: a row of a registered workflow created with max_attempts = M >= 1 is
\* claimed at most M times; when it is Failed it has been claimed exactly M
\* times and requeued M - 1 times, and attempts = M; while it is Pending
\* every claim so far was answered by a requeue and fewer than M were made.
C5_ExactlyMaxAttempts ==
    \A id \in DOMAIN workflows :
        LET r == workflows[id]
        IN  (RegistryFind(r.name) /\ r.max_attempts >= 1) =>
                /\ claims[id] <= r.max_attempts
                /\ r.attempts = claims[id]
                /\ r.status = "failed" =>
                       /\ claims[id] = r.max_attempts
                       /\ requeues[id] = r.max_attempts - 1
                /\ r.status = "pending" =>
                       /\ requeues[id] = claims[id]
                       /\ claims[id] < r.max_attempts

\* A workflow with max_attempts = 2 has failed for good, the last attempt by
\* the step-mismatch error.
C5_Witness ==
    \E id \in DOMAIN workflows :
        /\ workflows[id].status = "failed"
        /\ workflows[id].max_attempts = 2
        /\ workflows[id].error = Some("Workflow step mismatch")

\* C6: the worker loop never terminates because a store operation failed.
C6_LoopNeverExits == \A w \in Workers : loop[w] /= "exited"

\* C7: a run_step call that reaches an index whose row has another step name
\* returns the step-mismatch error: no body is invoked, and no step row is
\* inserted or modified.
C7_MismatchStep ==
    \A t \in tasks : \A u \in tasks' :
        (/\ SameTask(t, u)
         /\ u.step_index = t.step_index + 1
         /\ RowAt(t.id, t.step_index) /= 0
         /\ steps[RowAt(t.id, t.step_index)].step_name /= u.step_name)
        => /\ u.pc = "wf"
           /\ ~u.ok
           /\ u.err = "Workflow step mismatch"
           /\ steps' = steps
           /\ bodyCalls' = bodyCalls

C7_MismatchAborts == [][C7_MismatchStep]_vars

\* A call has returned the mismatch error at an index whose row, of the
\* other name, is Succeeded.
C7_Witness ==
    \E t \in tasks :
        /\ t.pc = "wf"
        /\ t.err = "Workflow step mismatch"
        /\ SucceededAt(t.id, t.step_index - 1)
        /\ steps[RowAt(t.id, t.step_index - 1)].step_name /= t.step_name

\* C8: a row's status changes only from Pending to Running by a claim, from
\* Running to Succeeded when the body returned Ok, from Running to Pending
\* when the body failed with attempts < max_attempts, and from Running to
\* Failed when attempts >= max_attempts or the name is unregistered.
C8_StatusStep ==
    \A id \in DOMAIN workflows :
        LET r == workflows[id]
            a == workflows[id].status
            b == workflows'[id].status
        IN  a /= b =>
              \/ a = "pending" /\ b = "running" /\ claims'[id] = claims[id] + 1
              \/ /\ a = "running" /\ b = "succeeded"
                 /\ \E t \in tasks \ tasks' : t.id = id /\ t.pc = "wf" /\ t.ok
              \/ /\ a = "running" /\ b = "pending"
                 /\ r.attempts < r.max_attempts
                 /\ \E t \in tasks \ tasks' : t.id = id /\ t.pc = "wf"
              \/ /\ a = "running" /\ b = "failed"
                 /\ (r.attempts >= r.max_attempts \/ ~RegistryFind(r.name))

C8_StatusTransitions == [][C8_StatusStep]_vars

\* A row is back to Pending after a failed attempt.
C8_Witness ==
    \E id \in DOMAIN workflows :
        /\ workflows[id].status = "pending"
        /\ workflows[id].attempts = 1
        /\ IsSome(workflows[id].error)

\* C9: while a step body runs and the lease of its workflow has passed, the
\* row can be claimed by another worker through claim_next_workflow.
C9_LongStepReclaimable ==
    \A t \in tasks :
        (/\ t.pc = "body"
         /\ IsSome(workflows[t.id].locked_until)
         /\ Get(workflows[t.id].locked_until) <= now)
        => t.id \in Candidates(workflows, now, {})

\* C10: a start_named call with an unregistered name returns an error and
\* leaves the workflows table as it is; with a registered name it returns
\* the id of one new row, appended to an otherwise unchanged table, whose
\* status is Pending, attempts 0, and next_run_at, locked_until, worker_id,
\* output and error null.
C10_StartStep ==
    Len(starts') = Len(starts) + 1 =>
        LET c == starts'[Len(starts')]
        IN  IF RegistryFind(c.name)
            THEN /\ c.ok
                 /\ Len(workflows') = Len(workflows) + 1
                 /\ c.id = Len(workflows')
                 /\ \A i \in DOMAIN workflows : workflows'[i] = workflows[i]
                 /\ workflows'[c.id].name = c.name
                 /\ workflows'[c.id].status = "pending"
                 /\ workflows'[c.id].attempts = 0
                 /\ workflows'[c.id].next_run_at = None
                 /\ workflows'[c.id].locked_until = None
                 /\ workflows'[c.id].worker_id = None
                 /\ workflows'[c.id].output = None
                 /\ workflows'[c.id].error = None
            ELSE /\ ~c.ok
                 /\ workflows' = workflows

C10_StartNamed == [][C10_StartStep]_vars

\* One call was refused, another inserted a row, and the table holds that
\* row alone.
C10_Witness ==
    /\ Len(starts) = 2
    /\ ~starts[1].ok
    /\ starts[2].ok
    /\ Len(workflows) = 1
    /\ workflows[starts[2].id].name = starts[2].name

\* C11: a claimed workflow whose name is not in the registry is marked Failed
\* by the first thing its execution does, with the error "Workflow not
\* registered", whatever attempts and max_attempts are; none of its steps is
\* ever executed and it is never requeued.
C11_UnregisteredStep ==
    \A t \in tasks :
        (/\ t.pc = "find"
         /\ ~RegistryFind(t.name)
         /\ t \notin tasks'
         /\ loop'[t.worker] /= "crashed")
        => /\ \A u \in tasks' : ~SameTask(t, u)
           /\ workflows'[t.id].status = "failed"
           /\ workflows'[t.id].error = Some("Workflow not registered")
           /\ requeues' = requeues
           /\ steps' = steps

C11_UnregisteredState ==
    \A id \in DOMAIN workflows :
        ~RegistryFind(workflows[id].name) =>
            /\ requeues[id] = 0
            /\ claims[id] <= 1
            /\ \A i \in DOMAIN steps : steps[i].workflow_id /= id
            /\ \A k \in StepKeys : k[1] = id => bodyCalls[k] = 0
            /\ \A t \in tasks : t.id = id => t.pc = "find"
            /\ workflows[id].status /= "succeeded"

C11_UnregisteredFails == [](C11_UnregisteredState) /\ [][C11_UnregisteredStep]_vars

\* An unregistered workflow with an attempt left has been marked Failed
\* after its first claim.
C11_Witness ==
    \E id \in DOMAIN workflows :
        /\ ~RegistryFind(workflows[id].name)
        /\ workflows[id].status = "failed"
        /\ workflows[id].attempts = 1
        /\ workflows[id].max_attempts = 2
        /\ workflows[id].error = Some("Workflow not registered")

\* C12: every step row counts the starts of its body: its attempts field is
\* the number of invocations of the body at its index plus the call that has
\* written the row and is about to invoke the body; a body is started at
\* most once in each execution attempt, and only where a row exists.  (A
\* worker that dies between the write of the row and the invocation leaves
\* the row one ahead of the invocations: the equality is stated for runs in
\* which no worker has died.)
C12_InFlight(workflow_id, step_index) ==
    Cardinality({t \in tasks : /\ t.id = workflow_id
                               /\ t.pc = "refresh1"
                               /\ t.step_index - 1 = step_index})

C13_Running(w) == Cardinality({t \in tasks : t.worker = w})

C13_Held(w) == IF loop[w] \in {"claim", "update"} THEN 1 ELSE 0

C13_PermitState ==
    \A w \in Workers :
        /\ permits[w] >= 0
        /\ C13_Running(w) + C13_Held(w) + permits[w] = Concurrency
        /\ C13_Running(w) <= Concurrency
        /\ loop[w] \in {"claim", "update"} => C13_Running(w) < Concurrency

C13_PermitStep ==
    \A t \in tasks :
        (/\ \A u \in tasks' : ~SameTask(t, u)
         /\ loop'[t.worker] /= "crashed")
        => permits'[t.worker] = permits[t.worker] + 1

C13_PermitBound == [](C13_PermitState) /\ [][C13_PermitStep]_vars

\* The bound bites: the worker's only permit is with an execution, the loop
\* waits in acquire, and a second row is claimable.
C13_Witness ==
    /\ C13_Running("w1") = Concurrency
    /\ permits["w1"] = 0
    /\ loop["w1"] = "acquire"
    /\ Candidates(workflows, now, {}) /= {}

\* C14: with a single claimer, claim_next_workflow selects the row of the
\* smallest id among those that satisfy the claim predicate and returns it,
\* changing that row alone; it returns None only when no row satisfies the
\* predicate, and then changes no row.
C14_Claimable == {i \in DOMAIN workflows : ClaimPredicate(workflows[i], now)}

C14_ClaimStep ==
    /\ (loop["w1"] = "claim" /\ loop'["w1"] = "update") =>
           /\ txn'["w1"].row \in C14_Claimable
           /\ \A j \in C14_Claimable : txn'["w1"].row <= j
           /\ workflows' = workflows
    /\ (loop["w1"] = "update" /\ loop'["w1"] = "acquire") =>
           LET id == txn["w1"].row
           IN  /\ \E t \in tasks' \ tasks : t.id = id /\ t.worker = "w1"
               /\ workflows'[id].status = "running"
               /\ claims'[id] = claims[id] + 1
               /\ \A j \in DOMAIN workflows : j /= id => workflows'[j] = workflows[j]
               /\ DOMAIN workflows' = DOMAIN workflows
    /\ (loop["w1"] = "claim" /\ loop'["w1"] = "acquire") =>
           /\ C14_Claimable = {}
           /\ workflows' = workflows
           /\ tasks' = tasks

C14_ClaimsSmallest == [][C14_ClaimStep]_vars

\* Two rows are claimable and the claim statement holds the first.
C14_Witness ==
    /\ Len(workflows) = 2
    /\ txn["w1"].row = 1
    /\ ClaimPredicate(workflows[2], now)

\* C15: a row is selected by a claim statement, and returned by it, only
\* when its status is Pending, its next_run_at is null or not later than the
\* clock, and its locked_until is null or not later than the clock: a row
\* requeued for time T is not claimed while the clock is before T.
C15_Due(r, t) ==
    /\ r.status = "pending"
    /\ r.next_run_at /= None => Get(r.next_run_at) <= t
    /\ r.locked_until /= None => Get(r.locked_until) <= t

C15_ClaimStep ==
    /\ \A w \in Workers :
         (txn[w].row = 0 /\ txn'[w].row /= 0) =>
             /\ txn'[w].at = now
             /\ C15_Due(workflows[txn'[w].row], now)
    /\ \A id \in DOMAIN workflows :
         claims'[id] /= claims[id] =>
             /\ C15_Due(workflows[id], now)
             /\ \E w \in Workers : txn[w].row = id /\ C15_Due(workflows[id], txn[w].at)

C15_ClaimedOnlyWhenDue == [][C15_ClaimStep]_vars

\* A row requeued for a later time has been claimed again, after that time.
C15_Witness ==
    \E id \in DOMAIN workflows :
        /\ workflows[id].status = "running"
        /\ claims[id] = 2
        /\ requeues[id] = 1
        /\ IsSome(workflows[id].next_run_at)
        /\ Get(workflows[id].next_run_at) >= 1
        /\ Get(workflows[id].next_run_at) <= now

\* C16: a requeue writes next_run_at = now + retry_backoff_secs * attempts,
\* attempts being the row's count after the claim of the failed attempt, and
\* leaves the row Pending; the value is larger than the one the previous
\* requeue of the row wrote.
C16_RequeueStep ==
    \A id \in DOMAIN workflows :
        requeues'[id] /= requeues[id] =>
            /\ workflows[id].attempts >= 1
            /\ workflows[id].attempts < workflows[id].max_attempts
            /\ workflows'[id].status = "pending"
            /\ workflows'[id].attempts = workflows[id].attempts
            /\ workflows'[id].next_run_at =
                   Some(now + RetryBackoffSecs * workflows[id].attempts)
            /\ IsSome(workflows[id].next_run_at) =>
                   Get(workflows'[id].next_run_at) > Get(workflows[id].next_run_at)

C16_LinearBackoff == [][C16_RequeueStep]_vars

\* A row has been requeued twice, the second time after its second attempt
\* and for a time two backoff units ahead.
C16_Witness ==
    \E id \in DOMAIN workflows :
        /\ requeues[id] = 2
        /\ workflows[id].status = "pending"
        /\ workflows[id].attempts = 2
        /\ workflows[id].next_run_at = Some(now + 2 * RetryBackoffSecs)

\* C17: in every reachable state the attempts of a row is the number of
\* claims that returned it and is at most max_attempts + 1; no step of the
\* system lowers it.
C17_AttemptsState ==
    \A id \in DOMAIN workflows :
        /\ workflows[id].attempts = claims[id]
        /\ workflows[id].attempts <= workflows[id].max_attempts + 1

C17_AttemptsStep ==
    \A id \in DOMAIN workflows : workflows'[id].attempts >= workflows[id].attempts

C17_AttemptsCountClaims == [](C17_AttemptsState) /\ [][C17_AttemptsStep]_vars

\* The bound is met: a row created with max_attempts = 0 has been claimed.
C17_Witness ==
    \E id \in DOMAIN workflows :
        /\ workflows[id].max_attempts = 0
        /\ workflows[id].attempts = 1
        /\ claims[id] = 1

\* C18: when an execution ends without mark_succeeded, requeue or
\* mark_failed taking effect (the operation returned a storage error), the
\* worker loop stays where it is, the permit of the execution is released,
\* and no row is written: the workflow is still Running under the lease and
\* the worker_id of the execution.
C18_ErrorStep ==
    \A t \in tasks :
        (/\ \A u \in tasks' : ~SameTask(t, u)
         /\ loop'[t.worker] /= "crashed"
         /\ workflows'[t.id].status = "running")
        => /\ workflows' = workflows
           /\ workflows[t.id].worker_id = Some(t.worker)
           /\ IsSome(workflows[t.id].locked_until)
           /\ permits'[t.worker] = permits[t.worker] + 1
           /\ loop' = loop
           /\ txn' = txn

C18_BookkeepingErrorKeepsRow == [][C18_ErrorStep]_vars

\* The execution of a registered workflow has ended in a storage error: the
\* row is Running with its lease, no execution is left, the loop is alive
\* and its permit is free again.
C18_Witness ==
    \E id \in DOMAIN workflows :
        /\ RegistryFind(workflows[id].name)
        /\ workflows[id].status = "running"
        /\ workflows[id].worker_id = Some("w1")
        /\ IsSome(workflows[id].locked_until)
        /\ tasks = {}
        /\ loop["w1"] = "acquire"
        /\ permits["w1"] = Concurrency

\* C19: when a step body fails, the row of that step becomes Failed with the
\* error's message and every other step row is left as it is; run_step
\* returns that error to the workflow body, which calls no further step
\* (no step row of the workflow is written or added and no body of it is
\* invoked for the rest of the attempt); no step of the system changes a
\* Succeeded step row.
C19_FailStep ==
    /\ \A t \in tasks : \A u \in tasks' :
         (SameTask(t, u) /\ t.pc = "body" /\ ~u.ok) =>
             LET k == RowAt(t.id, t.step_index - 1)
             IN  /\ k /= 0
                 /\ u.pc = "refresh2"
                 /\ steps'[k].status = "failed"
                 /\ steps'[k].error = Some(u.err)
                 /\ steps'[k].attempts = steps[k].attempts
                 /\ DOMAIN steps' = DOMAIN steps
                 /\ \A i \in DOMAIN steps : i /= k => steps'[i] = steps[i]
    /\ \A t \in tasks : \A u \in tasks' :
         (SameTask(t, u) /\ ~t.ok) =>
             /\ ~u.ok
             /\ u.err = t.err
             /\ u.step_index = t.step_index
             /\ \A i \in DOMAIN steps :
                    steps[i].workflow_id = t.id => steps'[i] = steps[i]
             /\ \A i \in DOMAIN steps' :
                    steps'[i].workflow_id = t.id => i \in DOMAIN steps
             /\ \A k \in DOMAIN bodyCalls :
                    k[1] = t.id => bodyCalls'[k] = bodyCalls[k]
    /\ \A i \in DOMAIN steps :
         steps[i].status = "succeeded" => steps'[i] = steps[i]

C19_StepFailureKeepsMemo == [][C19_FailStep]_vars

\* The attempt after a failure of step 1 replays step 0 from its stored
\* output: its body has run once, and the row of step 1 is still Failed.
C19_Witness ==
    \E t \in tasks :
        /\ t.attempts = 2
        /\ t.pc = "memo"
        /\ t.step_index = 1
        /\ bodyCalls[<<t.id, 0>>] = 1
        /\ RowAt(t.id, 1) /= 0
        /\ steps[RowAt(t.id, 1)].status = "failed"
        /\ steps[RowAt(t.id, 1)].error = Some("boom")

\* C20: wait returns a status only out of a status read that found the row
\* Succeeded or Failed, and the status it returns is the one read; a read of
\* a Pending or Running row sends it to sleep and to the next read, so it
\* has not returned while the workflow is not terminal.
C20_Terminal == {"succeeded", "failed"}

C20_WaitState ==
    /\ waiter.pc = "returned" =>
           /\ waiter.result \in {"Succeeded", "Failed"}
           /\ StatusFromStr(workflows[waiter.id].status) = Some(waiter.result)
    /\ waiter.pc /= "idle" =>
           (workflows[waiter.id].status \notin C20_Terminal => waiter.pc /= "returned")

C20_WaitStep ==
    /\ (waiter.pc /= "returned" /\ waiter'.pc = "returned") =>
           /\ waiter.pc = "poll"
           /\ workflows[waiter.id].status \in C20_Terminal
           /\ Some(waiter'.result) = StatusFromStr(workflows[waiter.id].status)
    /\ (/\ waiter.pc = "poll"
        /\ workflows[waiter.id].status \notin C20_Terminal
        /\ waiter' /= waiter) =>
           waiter'.pc \in {"sleep", "error"}
    /\ waiter.pc = "returned" => waiter' = waiter

C20_WaitUntilTerminal == [](C20_WaitState) /\ [][C20_WaitStep]_vars

\* wait has read a status that was not terminal, slept, and later returned
\* Failed for a workflow that used its attempts.
C20_Witness ==
    /\ waiter.pc = "returned"
    /\ waiter.slept
    /\ waiter.result = "Failed"
    /\ workflows[waiter.id].attempts = 2

\* C21: there is at most one step row for each pair (workflow_id,
\* step_index), and no step of the system deletes a step row or moves it to
\* another pair: the pairs that have a row only grow.
C21_UniqueState ==
    \A i \in DOMAIN steps : \A j \in DOMAIN steps :
        (/\ steps[i].workflow_id = steps[j].workflow_id
         /\ steps[i].step_index = steps[j].step_index) => i = j

C21_GrowStep ==
    /\ Len(steps') >= Len(steps)
    /\ \A i \in DOMAIN steps :
         /\ steps'[i].workflow_id = steps[i].workflow_id
         /\ steps'[i].step_index = steps[i].step_index
         /\ steps'[i].step_name = steps[i].step_name

C21_StepRowsUnique == [](C21_UniqueState) /\ [][C21_GrowStep]_vars

\* A step has been run a second time at its index: the table holds the two
\* rows of the workflow, and the retried one counts two attempts.
C21_Witness ==
    /\ Len(steps) = 2
    /\ steps[1].workflow_id = steps[2].workflow_id
    /\ \E i \in DOMAIN steps : steps[i].attempts = 2

\* C22: a workflow row has a lease (locked_until) and a worker_id exactly
\* when it is Running: inserted and requeued rows have neither, Succeeded and
\* Failed rows have neither and have completed_at set.
C22_LeaseState ==
    \A id \in DOMAIN workflows :
        LET r == workflows[id]
        IN  /\ IsSome(r.locked_until) <=> r.status = "running"
            /\ IsSome(r.worker_id) <=> r.status = "running"
            /\ r.status \in {"succeeded", "failed"} => IsSome(r.completed_at)
            /\ r.status \in {"pending", "running"} => r.completed_at = None

\* mark_succeeded, requeue and mark_failed leave the row as the claim says.
C22_ReleaseStep ==
    \A id \in DOMAIN workflows :
        (workflows[id].status = "running" /\ workflows'[id].status /= "running") =>
            /\ workflows'[id].locked_until = None
            /\ workflows'[id].worker_id = None
            /\ workflows'[id].status \in {"succeeded", "failed"} =>
                   workflows'[id].completed_at = Some(now)

C22_LeaseIffRunning == [](C22_LeaseState) /\ [][C22_ReleaseStep]_vars

\* A requeued row: Pending after a claim, with no lease and no worker.
C22_Witness ==
    \E id \in DOMAIN workflows :
        /\ workflows[id].status = "pending"
        /\ workflows[id].attempts = 1
        /\ requeues[id] = 1
        /\ workflows[id].locked_until = None
        /\ workflows[id].worker_id = None

\* C23: start_workflow! called with the short name of a workflow in the
\* module that declares it, and called with the full path of the workflow,
\* both pass the key the workflow is registered under to start_named, and
\* both insert a row named by that key.
C23_NameStep ==
    Len(starts') = Len(starts) + 1 =>
        LET c == starts'[Len(starts')]
        IN  c.kind \in {"short", "qualified"} =>
                /\ c.ok
                /\ c.name = RegistryKey(decl)
                /\ c.name = RemoveSpaces(c.name)
                /\ Len(workflows') = Len(workflows) + 1
                /\ workflows'[c.id].name = RegistryKey(decl)

C23_NameState ==
    /\ \A i \in DOMAIN workflows : workflows[i].name = RegistryKey(decl)
    /\ \A i \in DOMAIN starts : \A j \in DOMAIN starts :
         (starts[i].kind = "short" /\ starts[j].kind = "qualified") =>
             starts[i].name = starts[j].name

C23_SameName == [](C23_NameState) /\ [][C23_NameStep]_vars

\* A workflow declared two modules deep was started by its short name and
\* by its full path, and the two rows have the same name.
C23_Witness ==
    /\ Len(decl.module) = 2
    /\ Len(starts) = 2
    /\ starts[1].kind = "short"
    /\ starts[2].kind = "qualified"
    /\ Len(workflows) = 2
    /\ workflows[1].name = workflows[2].name

\* C24: a call that is not memoized first makes the step row Running
\* (inserted with attempts 1, or updated with attempts + 1), then refreshes
\* the lease and invokes the body; when the body has completed it writes
\* the outcome to the row, and it refreshes the lease again before it
\* returns.  A memoized call refreshes the lease once and writes no step
\* row.  The steps of a call are taken in this order and in no other.
C24_Refreshed(id) ==
    /\ workflows'[id] = [workflows[id] EXCEPT !.locked_until = Some(now + LockTimeoutSecs),
                                              !.updated_at = now]
    /\ steps' = steps

C24_Order ==
    {<<"find", "wf">>, <<"wf", "refresh1">>, <<"wf", "memo">>, <<"refresh1", "body">>,
     <<"body", "refresh2">>, <<"refresh2", "wf">>, <<"memo", "wf">>}

C24_CallStep ==
    \A t \in tasks : \A u \in tasks' :
        (SameTask(t, u) /\ u.pc /= t.pc) =>
            /\ <<t.pc, u.pc>> \in C24_Order
            /\ (t.pc = "wf" /\ u.pc = "refresh1") =>
                   LET old == RowAt(t.id, t.step_index)
                       new == load_step_by_index(steps', t.id, t.step_index)
                   IN  /\ new /= 0
                       /\ steps'[new].status = "running"
                       /\ steps'[new].step_name = u.step_name
                       /\ steps'[new].attempts =
                              IF old = 0 THEN 1 ELSE steps[old].attempts + 1
                       /\ workflows' = workflows
                       /\ bodyCalls' = bodyCalls
            /\ (t.pc = "refresh1" /\ u.pc = "body") =>
                   /\ C24_Refreshed(t.id)
                   /\ steps[RowAt(t.id, t.step_index - 1)].status = "running"
                   /\ bodyCalls'[<<t.id, t.step_index - 1>>] =
                          bodyCalls[<<t.id, t.step_index - 1>>] + 1
            /\ (t.pc = "body" /\ u.pc = "refresh2") =>
                   /\ steps'[RowAt(t.id, t.step_index - 1)].status =
                          IF u.ok THEN "succeeded" ELSE "failed"
                   /\ workflows' = workflows
                   /\ bodyCalls' = bodyCalls
            /\ (t.pc = "refresh2" /\ u.pc = "wf") =>
                   /\ C24_Refreshed(t.id)
                   /\ bodyCalls' = bodyCalls
            /\ (t.pc = "wf" /\ u.pc = "memo") =>
                   /\ workflows' = workflows
                   /\ steps' = steps
                   /\ bodyCalls' = bodyCalls
            /\ (t.pc = "memo" /\ u.pc = "wf") =>
                   /\ C24_Refreshed(t.id)
                   /\ bodyCalls' = bodyCalls

C24_StepProtocol == [][C24_CallStep]_vars

\* A body runs under a lease that was refreshed after the claim: the lease
\* ends later than the one the claim gave.
C24_Witness ==
    \E t \in tasks :
        /\ t.pc = "body"
        /\ t.attempts = 1
        /\ Get(workflows[t.id].locked_until) >
               Get(workflows[t.id].started_at) + LockTimeoutSecs

\* C25: applied to any row of any reachable state at the current time,
\* refresh_lock sets locked_until to now + lease and updated_at to now and
\* changes nothing else, in that row or in another; it does not move
\* locked_until back; applied again at the same time it changes nothing.
C25_RefreshFrame ==
    \A id \in DOMAIN workflows :
        LET after == refresh_lock(workflows, id, now)
        IN  /\ DOMAIN after = DOMAIN workflows
            /\ \A j \in DOMAIN workflows : j /= id => after[j] = workflows[j]
            /\ after[id] = [workflows[id] EXCEPT !.locked_until = after[id].locked_until,
                                                 !.updated_at = after[id].updated_at]
            /\ after[id].locked_until = Some(now + LockTimeoutSecs)
            /\ after[id].updated_at = now
            /\ IsSome(workflows[id].locked_until) =>
                   Get(after[id].locked_until) >= Get(workflows[id].locked_until)
            /\ refresh_lock(after, id, now) = after

\* A step has returned in a running execution: the lease was refreshed at
\* a later time than the claim and is ahead of the claim's lease, and the
\* row is still Running for the same worker.
C25_Witness ==
    \E t \in tasks :
        /\ t.pc = "wf"
        /\ t.step_index >= 1
        /\ workflows[t.id].status = "running"
        /\ workflows[t.id].worker_id = Some(t.worker)
        /\ workflows[t.id].locked_until = Some(now + LockTimeoutSecs)
        /\ Get(workflows[t.id].started_at) < now

\* C26: in a run without crash and without storage error, with a fair
\* worker and advancing time, every row of a registered workflow is
\* eventually Succeeded or Failed, it is claimed at most max(max_attempts, 1)
\* times, and a wait() on it eventually returns.
C26_Max(a, b) == IF a >= b THEN a ELSE b

C26_ClaimsBounded ==
    \A id \in DOMAIN workflows :
        claims[id] <= C26_Max(workflows[id].max_attempts, 1)

C26_Inserted(id) == id \in DOMAIN workflows /\ RegistryFind(workflows[id].name)

C26_Done(id) ==
    id \in DOMAIN workflows /\ workflows[id].status \in {"succeeded", "failed"}

C26_Waiting(id) == waiter.pc \in {"poll", "sleep"} /\ waiter.id = id /\ C26_Inserted(id)

C26_EventuallyTerminal ==
    /\ [](C26_ClaimsBounded)
    /\ \A id \in 1..MaxWorkflows : C26_Inserted(id) ~> C26_Done(id)
    /\ \A id \in 1..MaxWorkflows : C26_Waiting(id) ~> (waiter.pc = "returned")

\* A registered workflow has used its two attempts, the second after the
\* backoff, and the wait() that had been sleeping on it has returned.
C26_Witness ==
    \E id \in DOMAIN workflows :
        /\ RegistryFind(workflows[id].name)
        /\ workflows[id].status = "failed"
        /\ claims[id] = 2
        /\ waiter.pc = "returned"
        /\ waiter.id = id
        /\ waiter.slept

\* C27: a workflow whose functions make the same step calls in the same
\* order whenever they run never gets the step-mismatch error, also when a
\* step body calls a step and the outer step is Succeeded at the replay.
C27_NoMismatch ==
    \A t \in tasks : t.err /= "Workflow step mismatch"

\* C28: in every reachable state a workflow row has an output exactly when
\* it is Succeeded and a step row has an output exactly when it is
\* Succeeded, so no step call ends with the error of a Succeeded step row
\* without output.
C28_OutputIffSucceeded ==
    /\ \A id \in DOMAIN workflows :
           IsSome(workflows[id].output) <=> workflows[id].status = "succeeded"
    /\ \A i \in DOMAIN steps :
           IsSome(steps[i].output) <=> steps[i].status = "succeeded"
    /\ \A t \in tasks : t.err /= "Step output missing for succeeded step"

\* The second attempt of a workflow has taken the memoized path for its
\* first step, whose row is Succeeded with an output, beside a Failed step
\* row without output.
C28_Witness ==
    \E t \in tasks :
        /\ t.pc = "memo"
        /\ t.attempts = 2
        /\ \E i \in DOMAIN steps :
              /\ steps[i].workflow_id = t.id
              /\ steps[i].step_index = t.step_index - 1
              /\ steps[i].status = "succeeded"
              /\ IsSome(steps[i].output)
        /\ \E j \in DOMAIN steps :
              /\ steps[j].workflow_id = t.id
              /\ steps[j].status = "failed"
              /\ steps[j].output = None

\* C29: every execution attempt starts with the step counter at 0, each
\* run_step call takes the value of the counter as its index and adds one
\* to it (nothing else moves the counter, and a row that is inserted gets
\* the index of the call), and the step rows of a workflow always occupy
\* the indices 0 .. n-1 without a gap.
C29_Indices(id) ==
    {steps[i].step_index : i \in {j \in DOMAIN steps : steps[j].workflow_id = id}}

C29_State ==
    /\ \A id \in DOMAIN workflows :
           C29_Indices(id) = 0..(Cardinality(C29_Indices(id)) - 1)
    /\ \A t \in tasks :
           /\ t.pc = "find" => t.step_index = 0
           /\ \A k \in 0..(t.step_index - 1) : RowAt(t.id, k) /= 0

C29_IsCall(t, u) ==
    /\ t.pc = "wf"
    /\ \/ u.pc \in {"refresh1", "memo"}
       \/ t.ok /\ ~u.ok

C29_CounterStep ==
    /\ \A t \in tasks : \A u \in tasks' :
           (SameTask(t, u) /\ u /= t) =>
               /\ (t.pc = "find") => (u.pc = "wf" /\ u.step_index = 0)
               /\ IF C29_IsCall(t, u)
                  THEN /\ u.step_index = t.step_index + 1
                       /\ load_step_by_index(steps', t.id, t.step_index) /= 0
                       /\ Len(steps') > Len(steps) =>
                              /\ Len(steps') = Len(steps) + 1
                              /\ steps'[Len(steps')].workflow_id = t.id
                              /\ steps'[Len(steps')].step_index = t.step_index
                              /\ steps'[Len(steps')].step_name = u.step_name
                  ELSE /\ u.step_index = t.step_index
                       /\ Len(steps') = Len(steps)
    /\ \A u \in tasks' \ tasks :
           (\A t \in tasks : ~SameTask(t, u)) => (u.pc = "find" /\ u.step_index = 0)

C29_FreshCounter == [](C29_State) /\ [][C29_CounterStep]_vars

\* The second attempt of a workflow whose first attempt made two step
\* calls has made its first call, again with index 0.
C29_Witness ==
    \E t \in tasks :
        /\ t.attempts = 2
        /\ t.pc = "memo"
        /\ t.step_index = 1
        /\ C29_Indices(t.id) = {0, 1}

\* C30: mark_running on an existing row sets the row Running, adds one to
\* attempts and sets the lease and the worker_id of the call, whatever the
\* row's status, lease and next_run_at were, and returns the row; it writes
\* nothing else, and it fails only when the row does not exist.
C30_MarkStep ==
    (marks' /= marks) =>
        LET m == marks'.last
        IN  /\ marks'.calls = marks.calls + 1
            /\ m.ok <=> m.id \in DOMAIN workflows
            /\ ~m.ok => (workflows' = workflows /\ m.claimed = "Workflow not found")
            /\ m.ok =>
                 LET old == workflows[m.id]
                     new == workflows'[m.id]
                 IN  /\ DOMAIN workflows' = DOMAIN workflows
                     /\ \A j \in DOMAIN workflows : j /= m.id => workflows'[j] = workflows[j]
                     /\ new.status = "running"
                     /\ new.attempts = old.attempts + 1
                     /\ new.locked_until = Some(now + m.lock_timeout)
                     /\ new.worker_id = Some(m.worker)
                     /\ new.started_at = IF IsSome(old.started_at) THEN old.started_at
                                                                     ELSE Some(now)
                     /\ new.updated_at = now
                     /\ new = [old EXCEPT !.status = new.status, !.attempts = new.attempts,
                                          !.locked_until = new.locked_until,
                                          !.worker_id = new.worker_id,
                                          !.started_at = new.started_at,
                                          !.updated_at = new.updated_at]
                     /\ m.claimed = [id |-> m.id, name |-> old.name, input |-> old.input,
                                     attempts |-> old.attempts + 1,
                                     max_attempts |-> old.max_attempts]

C30_MarkRunningAnyRow == [][C30_MarkStep]_vars

\* mark_running has returned Ok for a row that was Failed, after it did
\* for a row that was Succeeded; both rows are Running again, with the old
\* output and the old error.
C30_Witness ==
    /\ marks.calls = 2
    /\ marks.last.ok
    /\ marks.last.was = "failed"
    /\ workflows[marks.last.id].status = "running"
    /\ IsSome(workflows[marks.last.id].error)
    /\ \E i \in DOMAIN workflows :
          /\ i /= marks.last.id
          /\ workflows[i].status = "running"
          /\ IsSome(workflows[i].output)

====
